---- MODULE Spec2Model ----
(***************************************************************************)
(* IOSuite: the instrument wrappers of instr.py (Instrument,               *)
(* FrequencyGenerator_33220A, MultiMeter_34401A, PowerSupply_E3644A) and   *)
(* the acquisition script test_tools.py.                                   *)
(*                                                                         *)
(* A wrapper method is a straight-line sequence of print / resource.write  *)
(* / resource.query statements.  Each method is translated to the list of  *)
(* statements its body executes for given arguments; Invoke runs such a    *)
(* list against the resource handle, where any transport call may raise.   *)
(***************************************************************************)
EXTENDS Integers, Sequences, FiniteSets, TLC

VARIABLES
    mode,     \* "caller": methods are called one at a time; "script": test_tools.py runs
    instr,    \* the wrapper objects: name -> fields set by __init__
    wire,     \* the transport calls handed to the resource handles, in order
    errq,     \* per device: number of errors in the instrument's error queue
    err0,     \* per device: errq when the wrapper was constructed
    errCalls, \* per device: number of getErrorQueue calls made so far
    last,     \* the last method call: name, receiver, arguments, outcome
    out,      \* the lines printed by the last step
    pc,       \* script: index of the next statement of test_tools.py
    i,        \* script: the loop variable of line 66
    clock,    \* script: time.time() - t0, in ticks
    data,     \* script: the rows of the DataFrame
    exc       \* script: the exception that ended the run, or "none"

vars == <<mode, instr, wire, errq, err0, errCalls, last, out, pc, i, clock, data, exc>>

-----------------------------------------------------------------------------
(* Bounds *)

\* test_tools.py line 57 sets N = 2048; the loop is run with a small N here
N == 3
MaxErrors == 2
MaxErrCalls == 2

-----------------------------------------------------------------------------
(* Python values and str.format *)

None == [t |-> "None"]
PyInt(n) == [t |-> "int", n |-> n]
PyStr(s) == [t |-> "str", s |-> s]
\* a float by the parts of its repr: sign, integer digits, fraction digits
\* ("" when the repr has no point) and decimal exponent (0: fixed notation)
PyFloat(neg, whole, frac, e) ==
    [t |-> "float", neg |-> neg, whole |-> whole, frac |-> frac, e |-> e]

Digits2(n) == IF n < 10 THEN "0" \o ToString(n) ELSE ToString(n)

\* str(v), as "{0}".format(v) renders v
Format(v) ==
    CASE v.t = "int" -> ToString(v.n)
      [] v.t = "str" -> v.s
      [] v.t = "None" -> "None"
      [] v.t = "float" ->
            (IF v.neg THEN "-" ELSE "") \o ToString(v.whole)
            \o (IF v.frac = "" THEN "" ELSE "." \o v.frac)
            \o (IF v.e = 0 THEN ""
                ELSE "e" \o (IF v.e < 0 THEN "-" ELSE "+")
                     \o Digits2(IF v.e < 0 THEN 0 - v.e ELSE v.e))

\* v == k for an int literal k: an int and a float of the same value are equal,
\* a str is equal to no number
PyEq(v, k) ==
    CASE v.t = "int" -> v.n = k
      [] v.t = "float" ->
            /\ v.e = 0
            /\ v.frac = "0"
            /\ (IF v.neg THEN 0 - v.whole ELSE v.whole) = k
      [] OTHER -> FALSE

\* a format template: literal pieces and positional fields {k}
Lit(s) == [lit |-> TRUE, s |-> s, k |-> 0]
Fld(k) == [lit |-> FALSE, s |-> "", k |-> k]

RECURSIVE StrFormat(_, _)
StrFormat(tmpl, args) ==
    IF tmpl = <<>> THEN ""
    ELSE LET p == Head(tmpl)
         IN (IF p.lit THEN p.s ELSE Format(args[p.k + 1]))
            \o StrFormat(Tail(tmpl), args)

-----------------------------------------------------------------------------
(* The enumerations: member name -> value *)

RangeOptions == [minRange |-> "MIN", maxRange |-> "MAX", defRange |-> "DEF"]

OutputStates == [on |-> "on", off |-> "off"]

Waveshapes ==
    [sine |-> "SIN", square |-> "SQU", ramp |-> "RAMP", pulse |-> "PULS",
     noise |-> "NOISe", dc |-> "DC", user |-> "USER"]

ValueToMeas ==
    [voltage |-> "VOLT", current |-> "CURR", resistance |-> "RES",
     fresistance |-> "FRES", frequency |-> "FREQ", period |-> "PER",
     continuity |-> "CONT", diode |-> "DIOD"]

CurrentType == [alternating |-> "AC", direct |-> "DC"]

Members(enum) == DOMAIN enum

-----------------------------------------------------------------------------
(* Construction *)

Instrument_init(cls) ==
    [cls |-> cls,
     constructor |-> "N/A",
     modelName |-> "N/A",
     modelNumber |-> "N/A",
     characteristic |-> "N/A",
     description |-> "Generic instrument - Must be inherited"]

DescriptionTemplate == <<Fld(0), Lit(" "), Fld(1), Lit(" - "), Fld(2)>>

\* faulty variant: the subclass leaves the description Instrument.__init__ set
FrequencyGenerator_33220A_init_NoDescription ==
    [Instrument_init("FrequencyGenerator_33220A") EXCEPT
        !.constructor = "Agilent",
        !.modelName = "20MHz Function/Arbitrary Waveform Generator",
        !.modelNumber = "33220A"]

FrequencyGenerator_33220A_init ==
    LET s0 == Instrument_init("FrequencyGenerator_33220A")
        s1 == [s0 EXCEPT !.constructor = "Agilent",
                         !.modelName = "20MHz Function/Arbitrary Waveform Generator",
                         !.modelNumber = "33220A",
                         !.characteristic = "N/A"]
    IN [s1 EXCEPT !.description =
            StrFormat(DescriptionTemplate,
                      <<PyStr(s1.constructor), PyStr(s1.modelName), PyStr(s1.modelNumber)>>)]

MultiMeter_34401A_init ==
    LET s0 == Instrument_init("MultiMeter_34401A")
        s1 == [s0 EXCEPT !.constructor = "Agilent",
                         !.modelName = "6 1/2 Digit Multimeter",
                         !.modelNumber = "34401A",
                         !.characteristic = "N/A"]
    IN [s1 EXCEPT !.description =
            StrFormat(DescriptionTemplate,
                      <<PyStr(s1.constructor), PyStr(s1.modelName), PyStr(s1.modelNumber)>>)]

PowerSupply_E3644A_init ==
    LET s0 == Instrument_init("PowerSupply_E3644A")
        s1 == [s0 EXCEPT !.constructor = "Agilent",
                         !.modelName = "DC Power Supply",
                         !.modelNumber = "E3644A",
                         !.characteristic = "0-8V, 8A / 0-20V, 4A"]
    IN [s1 EXCEPT !.description =
            StrFormat(DescriptionTemplate \o <<Lit("\n"), Fld(3)>>,
                      <<PyStr(s1.constructor), PyStr(s1.modelName), PyStr(s1.modelNumber),
                        PyStr(s1.characteristic)>>)]

\* Instrument.__str__
Str(obj) == obj.description

\* the names test_tools.py gives its wrappers, and the class of each
Construct(name) ==
    CASE name = "frequGen" -> FrequencyGenerator_33220A_init
      [] name = "multimeter" -> MultiMeter_34401A_init
      [] name = "power_supply" -> PowerSupply_E3644A_init

-----------------------------------------------------------------------------
(* Statements of a method body *)

\* print(template.format(args))
Echo(tmpl, args) ==
    [kind |-> "print", tmpl |-> tmpl, text |-> StrFormat(tmpl, args),
     show |-> FALSE, ret |-> FALSE]

\* self.resource.write(template.format(args)); show: the result is printed
Send(tmpl, args, show) ==
    [kind |-> "write", tmpl |-> tmpl, text |-> StrFormat(tmpl, args),
     show |-> show, ret |-> FALSE]

\* self.resource.query(template.format(args)); show: the reply is printed,
\* ret: the reply is returned
Ask(tmpl, args, show, ret) ==
    [kind |-> "query", tmpl |-> tmpl, text |-> StrFormat(tmpl, args),
     show |-> show, ret |-> ret]

-----------------------------------------------------------------------------
(* Instrument *)

getID_Body == <<Ask(<<Lit("*IDN?")>>, <<>>, TRUE, FALSE)>>

reset_Body == <<Send(<<Lit("*RST")>>, <<>>, TRUE)>>

clearStatus_Body == <<Send(<<Lit("*CLS")>>, <<>>, TRUE)>>

writeText_Body(text) ==
    <<Send(<<Lit("DISP:TEXT \""), Fld(0), Lit("\"")>>, <<PyStr(text)>>, TRUE)>>

\* faulty variant: the queue is read twice in one call
getErrorQueue_Body_Drain(self) ==
    <<Echo(<<Lit("Error queue from "), Fld(0), Lit(" "), Fld(1)>>,
           <<PyStr(self.constructor), PyStr(self.modelName)>>),
      Ask(<<Lit("SYST:ERR?")>>, <<>>, TRUE, FALSE),
      Ask(<<Lit("SYST:ERR?")>>, <<>>, TRUE, FALSE)>>

getErrorQueue_Body(self) ==
    <<Echo(<<Lit("Error queue from "), Fld(0), Lit(" "), Fld(1)>>,
            <<PyStr(self.constructor), PyStr(self.modelName)>>),
      Ask(<<Lit("SYST:ERR?")>>, <<>>, TRUE, FALSE)>>

-----------------------------------------------------------------------------
(* FrequencyGenerator_33220A, PowerSupply_E3644A *)

\* both classes define the same setOutput
setOutput_Body(state) ==
    <<Echo(<<Lit("state:"), Lit(" "), Fld(0)>>, <<PyStr(OutputStates[state])>>),
      Send(<<Lit("OUTP "), Fld(0)>>, <<PyStr(OutputStates[state])>>, TRUE)>>

\* the defaults of setWaveform's optional parameters
setWaveform_defaults ==
    [load    |-> PyInt(50),
     lowVol  |-> PyInt(0),
     highVol |-> PyFloat(FALSE, 0, "75", 0),
     period  |-> PyFloat(FALSE, 0, "001", 0),
     width   |-> PyFloat(FALSE, 0, "0001", 0),
     trans   |-> PyFloat(FALSE, 1, "", -8),
     freq    |-> PyInt(2500),
     ampl    |-> PyFloat(FALSE, 1, "2", 0),
     offset  |-> PyFloat(FALSE, 0, "4", 0)]

setWaveform_Common(form, a) ==
    <<Send(<<Lit("FUNC "), Fld(0)>>, <<PyStr(Waveshapes[form])>>, FALSE),
      Send(<<Lit("OUTP:LOAD "), Fld(0)>>, <<a.load>>, FALSE)>>

setWaveform_Pulse(a) ==
    <<Send(<<Lit("VOLT:LOW "), Fld(0)>>, <<a.lowVol>>, FALSE),
      Send(<<Lit("VOLT:HIGH "), Fld(0)>>, <<a.highVol>>, FALSE),
      Send(<<Lit("PULS:PER "), Fld(0)>>, <<a.period>>, FALSE),
      Send(<<Lit("PULS:WIDT "), Fld(0)>>, <<a.width>>, FALSE),
      Send(<<Lit("PULS:TRAN "), Fld(0)>>, <<a.trans>>, FALSE)>>

setWaveform_Sine(a) ==
    <<Send(<<Lit("FREQ "), Fld(0)>>, <<a.freq>>, FALSE),
      Send(<<Lit("VOLT "), Fld(0)>>, <<a.ampl>>, FALSE),
      Send(<<Lit("VOLT:OFFS "), Fld(0)>>, <<a.offset>>, FALSE)>>

setWaveform_Notice(form) ==
    <<Echo(<<Lit("No implementation for "), Fld(0), Lit(" waveform.")>>,
           <<PyStr(Waveshapes[form])>>)>>

\* faulty variant: a shape that is neither pulse nor sine is set up like a sine
setWaveform_Body_ElseSine(form, a) ==
    setWaveform_Common(form, a)
    \o (IF form = "pulse" THEN setWaveform_Pulse(a) ELSE setWaveform_Sine(a))

\* faulty variant: the two branches are exchanged
setWaveform_Body_Swapped(form, a) ==
    setWaveform_Common(form, a)
    \o (IF form = "pulse" THEN setWaveform_Sine(a)
        ELSE IF form = "sine" THEN setWaveform_Pulse(a)
        ELSE setWaveform_Notice(form))

\* faulty variant: the amplitude is written before the frequency
setWaveform_Body_VoltFirst(form, a) ==
    setWaveform_Common(form, a)
    \o (IF form = "pulse" THEN setWaveform_Pulse(a)
        ELSE IF form = "sine" THEN
            <<setWaveform_Sine(a)[2], setWaveform_Sine(a)[1], setWaveform_Sine(a)[3]>>
        ELSE setWaveform_Notice(form))

setWaveform_Body(form, a) ==
    setWaveform_Common(form, a)
    \o (IF form = "pulse" THEN setWaveform_Pulse(a)
        ELSE IF form = "sine" THEN setWaveform_Sine(a)
        ELSE setWaveform_Notice(form))

setPower_Body(volt, maxAmp) ==
    <<Send(<<Lit("APPL "), Fld(0), Lit(", "), Fld(1)>>, <<volt, maxAmp>>, TRUE)>>

\* faulty variant: the two fields are exchanged
setStepSize_Body_Swapped(m, step) ==
    <<Send(<<Fld(1), Lit(":STEP "), Fld(0)>>, <<PyStr(ValueToMeas[m]), step>>, TRUE)>>

setStepSize_Body(m, step) ==
    <<Send(<<Fld(0), Lit(":STEP "), Fld(1)>>, <<PyStr(ValueToMeas[m]), step>>, TRUE)>>

voltUp_Body == <<Send(<<Lit("VOLT UP")>>, <<>>, TRUE)>>

voltDown_Body == <<Send(<<Lit("VOLT DOWN")>>, <<>>, TRUE)>>

getMeasCurr_Body == <<Ask(<<Lit("MEAS:CURR?")>>, <<>>, TRUE, FALSE)>>

-----------------------------------------------------------------------------
(* MultiMeter_34401A *)

\* faulty variant: the minimum and maximum tokens are exchanged
setMeasurements_Range_Swapped(valueRange) ==
    LET r1 == IF PyEq(valueRange, -1) THEN PyStr(RangeOptions.minRange) ELSE valueRange
        r2 == IF PyEq(r1, -2) THEN PyStr(RangeOptions.maxRange) ELSE r1
        r3 == IF PyEq(r2, -3) THEN PyStr(RangeOptions.defRange) ELSE r2
    IN r3

\* the three if statements of lines 231-236, each on the value the one
\* before left in valueRange
setMeasurements_Range(valueRange) ==
    LET r1 == IF PyEq(valueRange, -1) THEN PyStr(RangeOptions.maxRange) ELSE valueRange
        r2 == IF PyEq(r1, -2) THEN PyStr(RangeOptions.minRange) ELSE r1
        r3 == IF PyEq(r2, -3) THEN PyStr(RangeOptions.defRange) ELSE r2
    IN r3

setMeasurements_Body(m, currType, valueRange, resolution) ==
    <<Send(<<Lit("CONF:"), Fld(0), Lit(":"), Fld(1), Lit(" "), Fld(2), Lit(", "), Fld(3)>>,
            <<PyStr(ValueToMeas[m]), PyStr(CurrentType[currType]),
              setMeasurements_Range(valueRange), resolution>>,
            TRUE)>>

getMeas_Body(m, currType) ==
    <<Ask(<<Lit("MEAS:"), Fld(0), Lit(":"), Fld(1), Lit("?")>>,
            <<PyStr(ValueToMeas[m]), PyStr(CurrentType[currType])>>,
            TRUE, FALSE)>>

read_Body == <<Ask(<<Lit("READ?")>>, <<>>, FALSE, TRUE)>>

-----------------------------------------------------------------------------
(* Method lookup *)

InstrumentMethods == {"getID", "reset", "clearStatus", "writeText", "getErrorQueue"}

Methods(cls) ==
    InstrumentMethods \cup
    CASE cls = "FrequencyGenerator_33220A" -> {"setOutput", "setWaveform"}
      [] cls = "MultiMeter_34401A" -> {"setMeasurements", "getMeas", "read"}
      [] cls = "PowerSupply_E3644A" ->
            {"setPower", "setOutput", "setStepSize", "voltUp", "voltDown", "getMeasCurr"}

\* the statements self.op(**a) executes
MethodBody(self, op, a) ==
    CASE op = "getID" -> getID_Body
      [] op = "reset" -> reset_Body
      [] op = "clearStatus" -> clearStatus_Body
      [] op = "writeText" -> writeText_Body(a.text)
      [] op = "getErrorQueue" -> getErrorQueue_Body(self)
      [] op = "setOutput" -> setOutput_Body(a.state)
      [] op = "setWaveform" -> setWaveform_Body(a.form, a)
      [] op = "setPower" -> setPower_Body(a.volt, a.maxAmp)
      [] op = "setStepSize" -> setStepSize_Body(a.mode, a.step)
      [] op = "voltUp" -> voltUp_Body
      [] op = "voltDown" -> voltDown_Body
      [] op = "getMeasCurr" -> getMeasCurr_Body
      [] op = "setMeasurements" ->
            setMeasurements_Body(a.mode, a.currType, a.valueRange, a.resolution)
      [] op = "getMeas" -> getMeas_Body(a.mode, a.currType)
      [] op = "read" -> read_Body

-----------------------------------------------------------------------------
(* The instrument at the other end of a resource handle *)

\* replies to READ? / MEAS...? : two readings, and one truncated reply
Replies == {"+1.50000000E-03\n", "-2.00000000E-03\n", "+1.50000000E-"}

ErrText == "-113,\"Undefined header\""
NoErrText == "+0,\"No error\""
IdnReply(self) == "Agilent Technologies," \o self.modelNumber \o ",0,2.02"

\* the reply to a query, with q errors queued; r is the reading the
\* instrument has for a measurement query
Reply(self, cmd, q, r) ==
    CASE cmd = "*IDN?" -> IdnReply(self)
      [] cmd = "SYST:ERR?" -> IF q > 0 THEN ErrText ELSE NoErrText
      [] OTHER -> r

\* what print shows for the value resource.write returns (a byte count)
WriteCount == "<bytes written>"

Minus(a, b) == IF a > b THEN a - b ELSE 0

RECURSIVE Concat(_)
Concat(ss) == IF ss = <<>> THEN <<>> ELSE Head(ss) \o Concat(Tail(ss))

-----------------------------------------------------------------------------
(* Running a method body *)

IsCall(s) == s.kind /= "print"

\* f = 0: no transport call raises; f = j: the call of statement j raises
FailPoints(body) == {0} \cup {j \in 1..Len(body) : IsCall(body[j])}

\* SYST:ERR? queries answered among statements 1..n, statement f having raised
ErrQueries(body, n, f) ==
    Cardinality({j \in 1..n : /\ j /= f
                              /\ body[j].kind = "query"
                              /\ body[j].text = "SYST:ERR?"})

\* the effects of statements 1..n, the transport call of statement f raising
Effects(self, d, body, q0, f, r, n) ==
    LET replyAt(j) == Reply(self, body[j].text, Minus(q0, ErrQueries(body, j - 1, f)), r)
        calls == Concat([j \in 1..n |->
                    IF IsCall(body[j])
                    THEN <<[dev |-> d, kind |-> body[j].kind, tmpl |-> body[j].tmpl,
                            cmd |-> body[j].text, ok |-> (j /= f),
                            reply |-> IF body[j].kind = "query" /\ j /= f
                                      THEN replyAt(j) ELSE ""]>>
                    ELSE <<>>])
        printed == Concat([j \in 1..n |->
                    IF j = f THEN <<>>
                    ELSE CASE body[j].kind = "print" -> <<body[j].text>>
                           [] body[j].kind = "write" /\ body[j].show -> <<WriteCount>>
                           [] body[j].kind = "query" /\ body[j].show -> <<replyAt(j)>>
                           [] OTHER -> <<>>])
        returning == {j \in 1..n : j /= f /\ body[j].ret}
    IN [calls |-> calls,
        out |-> printed,
        raised |-> (f /= 0),
        ret |-> IF returning = {} \/ f /= 0 THEN None
                ELSE PyStr(replyAt(CHOOSE j \in returning : TRUE)),
        queue |-> Minus(q0, ErrQueries(body, n, f))]

\* faulty variant: the exception is swallowed and the rest of the body runs
Run_Swallow(self, d, body, q0, f, r) ==
    Effects(self, d, body, q0, f, r, Len(body))

\* Statements run in order; an exception raised by a transport call is not
\* caught anywhere, so the statements after it do not run.
Run(self, d, body, q0, f, r) ==
    Effects(self, d, body, q0, f, r, IF f = 0 THEN Len(body) ELSE f)

NoCall == [op |-> "", dev |-> "", args |-> <<>>, start |-> 0, raised |-> FALSE, ret |-> None]

\* instr[d].op(**a), the handle's log being log and pre already printed
Invoke(log, pre, d, op, a, f, r) ==
    /\ op \in Methods(instr[d].cls)
    /\ \E body \in {MethodBody(instr[d], op, a)} :
        /\ f \in FailPoints(body)
        /\ \E res \in {Run(instr[d], d, body, errq[d], f, r)} :
            /\ wire' = log \o res.calls
            /\ errq' = [errq EXCEPT ![d] = res.queue]
            /\ errCalls' = IF op = "getErrorQueue"
                           THEN [errCalls EXCEPT ![d] = @ + 1] ELSE errCalls
            /\ last' = [op |-> op, dev |-> d, args |-> a, start |-> Len(log),
                        raised |-> res.raised, ret |-> res.ret]
            /\ out' = pre \o res.out
            /\ UNCHANGED <<mode, instr, err0>>

-----------------------------------------------------------------------------
(* Argument values *)

Texts == {"Cleaning buffer...", "JOB DONE"}

\* the pulse call of test_tools.py lines 28-36 (wavAmpl = 10.0, wavFreq = 5.0)
ScriptPulseArgs ==
    [setWaveform_defaults EXCEPT
        !.load = PyInt(50),
        !.lowVol = PyFloat(TRUE, 5, "0", 0),
        !.highVol = PyFloat(FALSE, 5, "0", 0),
        !.period = PyFloat(FALSE, 0, "2", 0),
        !.width = PyFloat(FALSE, 0, "1", 0),
        !.trans = PyFloat(FALSE, 5, "", -9)]

\* the sine call of test_tools.py lines 37-43
ScriptSineArgs ==
    [setWaveform_defaults EXCEPT
        !.load = PyInt(50),
        !.freq = PyFloat(FALSE, 5, "0", 0),
        !.ampl = PyFloat(FALSE, 10, "0", 0),
        !.offset = PyInt(0)]

WaveArgs == {setWaveform_defaults, ScriptPulseArgs, ScriptSineArgs}

WithForm(a, form) ==
    [form |-> form, load |-> a.load, lowVol |-> a.lowVol, highVol |-> a.highVol,
     period |-> a.period, width |-> a.width, trans |-> a.trans, freq |-> a.freq,
     ampl |-> a.ampl, offset |-> a.offset]

Ranges ==
    {PyInt(10), PyInt(-1), PyInt(-2), PyInt(-3), PyInt(-4),
     PyFloat(TRUE, 1, "0", 0), PyFloat(TRUE, 2, "0", 0), PyFloat(TRUE, 3, "0", 0),
     PyFloat(TRUE, 1, "5", 0)}

Resolutions == {PyFloat(FALSE, 0, "001", 0), PyInt(-1)}

\* the defaults of setMeasurements' parameters
setMeasurements_defaults ==
    [mode |-> "voltage", currType |-> "direct",
     valueRange |-> PyInt(10), resolution |-> PyFloat(FALSE, 0, "001", 0)]

\* every mode and current type with the default range, every range and
\* resolution with the default mode
MeasArgs ==
    {[setMeasurements_defaults EXCEPT !.mode = m, !.currType = c] :
        m \in Members(ValueToMeas), c \in Members(CurrentType)}
    \cup
    {[setMeasurements_defaults EXCEPT !.valueRange = vr, !.resolution = res] :
        vr \in Ranges, res \in Resolutions}
    \cup
    {[mode |-> "current", currType |-> "direct",
      valueRange |-> PyInt(-1), resolution |-> PyInt(-1)]}

Volts == {PyFloat(FALSE, 3, "2", 0), PyInt(5)}
Amps == {PyFloat(FALSE, 0, "25", 0)}
Steps == {PyFloat(FALSE, 0, "2", 0), PyInt(1)}

-----------------------------------------------------------------------------
(* A caller using one wrapper: one action per method *)

Caller(d) == mode = "caller" /\ d \in DOMAIN instr

ScriptVars == <<pc, i, clock, data, exc>>

getID ==
    \E d \in DOMAIN instr, f \in 0..1 :
        /\ Caller(d)
        /\ Invoke(<<>>, <<>>, d, "getID", <<>>, f, "")
        /\ UNCHANGED ScriptVars

reset ==
    \E d \in DOMAIN instr, f \in 0..1 :
        /\ Caller(d)
        /\ Invoke(<<>>, <<>>, d, "reset", <<>>, f, "")
        /\ UNCHANGED ScriptVars

clearStatus ==
    \E d \in DOMAIN instr, f \in 0..1 :
        /\ Caller(d)
        /\ Invoke(<<>>, <<>>, d, "clearStatus", <<>>, f, "")
        /\ UNCHANGED ScriptVars

writeText ==
    \E d \in DOMAIN instr, text \in Texts, f \in 0..1 :
        /\ Caller(d)
        /\ Invoke(<<>>, <<>>, d, "writeText", [text |-> text], f, "")
        /\ UNCHANGED ScriptVars

getErrorQueue ==
    \E d \in DOMAIN instr, f \in 0..2 :
        /\ Caller(d)
        /\ errCalls[d] < MaxErrCalls
        /\ Invoke(<<>>, <<>>, d, "getErrorQueue", <<>>, f, "")
        /\ UNCHANGED ScriptVars

setOutput ==
    \E d \in DOMAIN instr, state \in Members(OutputStates), f \in 0..2 :
        /\ Caller(d)
        /\ instr[d].cls \in {"FrequencyGenerator_33220A", "PowerSupply_E3644A"}
        /\ Invoke(<<>>, <<>>, d, "setOutput", [state |-> state], f, "")
        /\ UNCHANGED ScriptVars

setWaveform ==
    \E d \in DOMAIN instr, form \in Members(Waveshapes), a \in WaveArgs, f \in 0..7 :
        /\ Caller(d)
        /\ instr[d].cls = "FrequencyGenerator_33220A"
        /\ Invoke(<<>>, <<>>, d, "setWaveform", WithForm(a, form), f, "")
        /\ UNCHANGED ScriptVars

setMeasurements ==
    \E d \in DOMAIN instr, a \in MeasArgs, f \in 0..1 :
        /\ Caller(d)
        /\ instr[d].cls = "MultiMeter_34401A"
        /\ Invoke(<<>>, <<>>, d, "setMeasurements", a, f, "")
        /\ UNCHANGED ScriptVars

getMeas ==
    \E d \in DOMAIN instr, m \in Members(ValueToMeas), c \in Members(CurrentType),
       f \in 0..1, r \in Replies :
        /\ Caller(d)
        /\ instr[d].cls = "MultiMeter_34401A"
        /\ Invoke(<<>>, <<>>, d, "getMeas", [mode |-> m, currType |-> c], f, r)
        /\ UNCHANGED ScriptVars

read ==
    \E d \in DOMAIN instr, f \in 0..1, r \in Replies :
        /\ Caller(d)
        /\ instr[d].cls = "MultiMeter_34401A"
        /\ Invoke(<<>>, <<>>, d, "read", <<>>, f, r)
        /\ UNCHANGED ScriptVars

setPower ==
    \E d \in DOMAIN instr, volt \in Volts, maxAmp \in Amps, f \in 0..1 :
        /\ Caller(d)
        /\ instr[d].cls = "PowerSupply_E3644A"
        /\ Invoke(<<>>, <<>>, d, "setPower", [volt |-> volt, maxAmp |-> maxAmp], f, "")
        /\ UNCHANGED ScriptVars

setStepSize ==
    \E d \in DOMAIN instr, m \in Members(ValueToMeas), step \in Steps, f \in 0..1 :
        /\ Caller(d)
        /\ instr[d].cls = "PowerSupply_E3644A"
        /\ Invoke(<<>>, <<>>, d, "setStepSize", [mode |-> m, step |-> step], f, "")
        /\ UNCHANGED ScriptVars

voltUp ==
    \E d \in DOMAIN instr, f \in 0..1 :
        /\ Caller(d)
        /\ instr[d].cls = "PowerSupply_E3644A"
        /\ Invoke(<<>>, <<>>, d, "voltUp", <<>>, f, "")
        /\ UNCHANGED ScriptVars

voltDown ==
    \E d \in DOMAIN instr, f \in 0..1 :
        /\ Caller(d)
        /\ instr[d].cls = "PowerSupply_E3644A"
        /\ Invoke(<<>>, <<>>, d, "voltDown", <<>>, f, "")
        /\ UNCHANGED ScriptVars

getMeasCurr ==
    \E d \in DOMAIN instr, f \in 0..1, r \in Replies :
        /\ Caller(d)
        /\ instr[d].cls = "PowerSupply_E3644A"
        /\ Invoke(<<>>, <<>>, d, "getMeasCurr", <<>>, f, r)
        /\ UNCHANGED ScriptVars

-----------------------------------------------------------------------------
(* test_tools.py *)

\* float(text), None standing for the ValueError of a text that is no number
ParseFloat(text) ==
    CASE text = "+1.50000000E-03\n" -> PyFloat(FALSE, 0, "0015", 0)
      [] text = "-2.00000000E-03\n" -> PyFloat(TRUE, 0, "002", 0)
      [] OTHER -> None

\* the public names of instr.py, which "from instr import *" binds
InstrNames ==
    {"enum", "pyvisa", "RangeOptions", "OutputStates", "Waveshapes", "ValueToMeas",
     "CurrentType", "Instrument", "FrequencyGenerator_33220A", "MultiMeter_34401A",
     "PowerSupply_E3644A"}

\* the names bound in the script's namespace when line 80 is reached
ScriptNames ==
    InstrNames \cup
    {"datetime", "time", "np", "pd", "wavFreq", "wavAmpl", "rm", "res_list",
     "frequGen", "multimeter", "N", "data", "date", "t0", "i", "elapsedTime",
     "sampleRate"}

Stmt(kind, dev, op, args, name) ==
    [kind |-> kind, dev |-> dev, op |-> op, args |-> args, name |-> name]

CallStmt(dev, op, args) == Stmt("call", dev, op, args, "")

\* the statements of test_tools.py from line 23 on, in order
Script ==
    <<Stmt("str", "frequGen", "", <<>>, ""),                                \* 23
      Stmt("str", "multimeter", "", <<>>, ""),                              \* 24
      CallStmt("frequGen", "getID", <<>>),                                  \* 26
      CallStmt("frequGen", "reset", <<>>),                                  \* 27
      CallStmt("frequGen", "setWaveform", WithForm(ScriptPulseArgs, "pulse")), \* 28-36
      CallStmt("frequGen", "setOutput", [state |-> "on"]),                  \* 44
      CallStmt("multimeter", "getID", <<>>),                                \* 46
      CallStmt("multimeter", "reset", <<>>),                                \* 47
      CallStmt("multimeter", "setMeasurements",                             \* 48
               [mode |-> "current", currType |-> "direct",
                valueRange |-> PyInt(-1), resolution |-> PyInt(-1)]),
      Stmt("loop", "multimeter", "read", <<>>, ""),                         \* 66-69
      Stmt("astype", "", "", <<>>, ""),                                     \* 71
      Stmt("rate", "", "", <<>>, ""),                                       \* 74-77
      Stmt("name", "", "", <<>>, "PrintData"),                              \* 80
      Stmt("name", "", "", <<>>, "FigureFormat"),                           \* 81
      Stmt("name", "", "", <<>>, "ValueToMeas"),                            \* 83
      CallStmt("multimeter", "plotData", <<>>),                             \* 89
      CallStmt("frequGen", "writeText", [text |-> "Cleaning buffer..."]),   \* 91
      CallStmt("frequGen", "getErrorQueue", <<>>),                          \* 92
      CallStmt("frequGen", "clearStatus", <<>>),                            \* 93
      CallStmt("frequGen", "setOutput", [state |-> "off"]),                 \* 94
      CallStmt("multimeter", "writeText", [text |-> "Cleaning buffer..."]), \* 96
      CallStmt("multimeter", "getErrorQueue", <<>>),                        \* 97
      CallStmt("multimeter", "clearStatus", <<>>),                          \* 98
      Stmt("sleep", "", "", <<>>, ""),                                      \* 99
      CallStmt("frequGen", "writeText", [text |-> "JOB DONE"]),             \* 100
      CallStmt("multimeter", "writeText", [text |-> "JOB DONE"])>>          \* 101

Running == mode = "script" /\ exc = "none" /\ pc \in 1..Len(Script)

CallerVars == <<mode, instr, wire, errq, err0, errCalls, last>>

\* print(frequGen), the computation of lines 74-77, time.sleep(2)
ScriptLocal ==
    /\ Running
    /\ Script[pc].kind \in {"str", "rate", "sleep"}
    /\ out' = CASE Script[pc].kind = "str" -> <<Str(instr[Script[pc].dev])>>
                [] Script[pc].kind = "rate" ->
                      <<"Elapsed time: " \o ToString(data[N].t), "Sampling rate: ">>
                [] OTHER -> <<>>
    /\ clock' = IF Script[pc].kind = "sleep" THEN clock + 2 ELSE clock
    /\ pc' = pc + 1
    /\ UNCHANGED <<i, data, exc>>
    /\ UNCHANGED CallerVars

\* a method call on a wrapper; an exception ends the run
ScriptCall ==
    /\ Running
    /\ Script[pc].kind = "call"
    /\ LET st == Script[pc]
       IN IF st.op \notin Methods(instr[st.dev].cls)
          THEN /\ exc' = "AttributeError"
               /\ out' = <<>>
               /\ UNCHANGED <<pc, i, clock, data>>
               /\ UNCHANGED CallerVars
          ELSE \E f \in 0..7 :
                /\ Invoke(wire, <<>>, st.dev, st.op, st.args, f, "")
                /\ exc' = IF f = 0 THEN "none" ELSE "VisaIOError"
                /\ pc' = IF f = 0 THEN pc + 1 ELSE pc
                /\ UNCHANGED <<i, clock, data>>

\* one iteration of the loop of lines 66-69
ScriptRead ==
    /\ Running
    /\ Script[pc].kind = "loop"
    /\ i < N
    /\ \E f \in 0..1, r \in Replies, dt \in 1..2 :
        /\ Invoke(wire,
                  IF i % 32 = 0 THEN <<"Iteration " \o ToString(i)>> ELSE <<>>,
                  Script[pc].dev, Script[pc].op, Script[pc].args, f, r)
        /\ IF f = 0
           THEN /\ data' = Append(data, [t |-> clock, V |-> last'.ret])
                /\ clock' = clock + dt
                /\ i' = i + 1
                /\ exc' = "none"
           ELSE /\ exc' = "VisaIOError"
                /\ UNCHANGED <<i, clock, data>>
        /\ pc' = pc

\* range(N) is exhausted
ScriptEndLoop ==
    /\ Running
    /\ Script[pc].kind = "loop"
    /\ i = N
    /\ pc' = pc + 1
    /\ out' = <<>>
    /\ UNCHANGED <<i, clock, data, exc>>
    /\ UNCHANGED CallerVars

\* data.V = data.V.astype(float)
ScriptAstype ==
    /\ Running
    /\ Script[pc].kind = "astype"
    /\ out' = <<>>
    /\ IF \E k \in 1..Len(data) : ParseFloat(data[k].V.s) = None
       THEN /\ exc' = "ValueError"
            /\ UNCHANGED <<pc, data>>
       ELSE /\ data' = [k \in 1..Len(data) |->
                            [t |-> data[k].t, V |-> ParseFloat(data[k].V.s)]]
            /\ pc' = pc + 1
            /\ exc' = "none"
    /\ UNCHANGED <<i, clock>>
    /\ UNCHANGED CallerVars

\* a statement that looks a name up
ScriptName ==
    /\ Running
    /\ Script[pc].kind = "name"
    /\ out' = <<>>
    /\ IF Script[pc].name \in ScriptNames
       THEN pc' = pc + 1 /\ exc' = "none"
       ELSE pc' = pc /\ exc' = "NameError"
    /\ UNCHANGED <<i, clock, data>>
    /\ UNCHANGED CallerVars

-----------------------------------------------------------------------------
(* Specification *)

NewWrappers(names) ==
    /\ instr = [d \in names |-> Construct(d)]
    /\ errq \in [names -> 0..MaxErrors]
    /\ err0 = errq
    /\ errCalls = [d \in names |-> 0]
    /\ wire = <<>>
    /\ last = NoCall
    /\ out = <<>>
    /\ i = 0 /\ clock = 0 /\ data = <<>> /\ exc = "none"

\* a caller holding one wrapper of any of the three classes
CallerInit ==
    /\ mode = "caller"
    /\ pc = 0
    /\ \E d \in {"frequGen", "multimeter", "power_supply"} : NewWrappers({d})

\* test_tools.py after lines 12-20
ScriptInit ==
    /\ mode = "script"
    /\ pc = 1
    /\ NewWrappers({"frequGen", "multimeter"})

Init == CallerInit \/ ScriptInit

Next ==
    \/ getID
    \/ reset
    \/ clearStatus
    \/ writeText
    \/ getErrorQueue
    \/ setOutput
    \/ setWaveform
    \/ setMeasurements
    \/ getMeas
    \/ read
    \/ setPower
    \/ setStepSize
    \/ voltUp
    \/ voltDown
    \/ getMeasCurr
    \/ ScriptLocal
    \/ ScriptCall
    \/ ScriptRead
    \/ ScriptEndLoop
    \/ ScriptAstype
    \/ ScriptName

Spec == Init /\ [][Next]_vars

-----------------------------------------------------------------------------
(* Properties *)

\* the transport calls made by the last method call, and their command texts
ThisCall == SubSeq(wire, last.start + 1, Len(wire))
Cmds(calls) == [k \in 1..Len(calls) |-> calls[k].cmd]
\* the literal a command template starts with
Header(call) == call.tmpl[1].s
IsPrefix(s, full) == Len(s) <= Len(full) /\ s = SubSeq(full, 1, Len(s))
\* the commands of the last call are those of full, up to the one that raised
Sent(full) ==
    /\ IsPrefix(Cmds(ThisCall), full)
    /\ ThisCall /= <<>>
    /\ last.raised \/ Len(ThisCall) = Len(full)

OtherShape == last.op = "setWaveform" /\ last.args.form \notin {"pulse", "sine"}

PulseHeaders == {"VOLT:LOW ", "VOLT:HIGH ", "PULS:PER ", "PULS:WIDT ", "PULS:TRAN "}
SineHeaders == {"FREQ ", "VOLT ", "VOLT:OFFS "}

C4_RangeField(valueRange) ==
    CASE PyEq(valueRange, -1) -> "MAX"
      [] PyEq(valueRange, -2) -> "MIN"
      [] PyEq(valueRange, -3) -> "DEF"
      [] OTHER -> Format(valueRange)

\* C4: setMeasurements writes exactly one command
\* 'CONF:{mode}:{currType} {range}, {resolution}' whose range field is MAX
\* for -1, MIN for -2, DEF for -3 and the number itself otherwise; a
\* translated value is not translated again.
C4_RangeTranslation ==
    last.op = "setMeasurements" =>
        /\ Len(ThisCall) = 1
        /\ ThisCall[1].kind = "write"
        /\ ThisCall[1].cmd =
                "CONF:" \o ValueToMeas[last.args.mode] \o ":" \o CurrentType[last.args.currType]
                \o " " \o C4_RangeField(last.args.valueRange)
                \o ", " \o Format(last.args.resolution)

\* the call of test_tools.py line 48
C4_Witness ==
    /\ last.op = "setMeasurements"
    /\ last.args.valueRange = PyInt(-1)
    /\ ~last.raised
    /\ Cmds(ThisCall) = <<"CONF:CURR:DC MAX, -1">>

\* C5 as stated: getMeas issues exactly one query 'MEAS:{mode}:{currType}?'
\* and returns the numeric reading parsed from the reply.
C5_GetMeasReturnsReading ==
    (last.op = "getMeas" /\ ~last.raised) =>
        /\ Len(ThisCall) = 1
        /\ ThisCall[1].kind = "query"
        /\ ThisCall[1].cmd =
                "MEAS:" \o ValueToMeas[last.args.mode] \o ":"
                \o CurrentType[last.args.currType] \o "?"
        /\ ParseFloat(ThisCall[1].reply) /= None =>
                last.ret = ParseFloat(ThisCall[1].reply)

Identity(obj) == obj.constructor \o " " \o obj.modelName \o " - " \o obj.modelNumber

\* C6 as stated: str() of every wrapper is
\* '{constructor} {modelName} - {modelNumber}', after construction and
\* after any sequence of operations.
C6_DescriptionIsIdentity ==
    \A d \in DOMAIN instr : Str(instr[d]) = Identity(instr[d])

\* C6 amended: str() of the generator and of the multimeter is
\* '{constructor} {modelName} - {modelNumber}'; str() of the power supply is
\* that string followed by a newline and its characteristic; after
\* construction and after any sequence of operations.
C6_DescriptionPerVariant ==
    \A d \in DOMAIN instr :
        /\ instr[d].cls = "FrequencyGenerator_33220A" =>
            /\ Str(instr[d]) = Identity(instr[d])
            /\ Str(instr[d]) = "Agilent 20MHz Function/Arbitrary Waveform Generator - 33220A"
        /\ instr[d].cls = "MultiMeter_34401A" =>
            /\ Str(instr[d]) = Identity(instr[d])
            /\ Str(instr[d]) = "Agilent 6 1/2 Digit Multimeter - 34401A"
        /\ instr[d].cls = "PowerSupply_E3644A" =>
            /\ Str(instr[d]) = Identity(instr[d]) \o "\n" \o instr[d].characteristic
            /\ Str(instr[d]) = "Agilent DC Power Supply - E3644A\n0-8V, 8A / 0-20V, 4A"

\* a power supply that has been operated
C6_Witness ==
    /\ last.op = "setPower"
    /\ ~last.raised
    /\ Str(instr[last.dev]) = "Agilent DC Power Supply - E3644A\n0-8V, 8A / 0-20V, 4A"

Injective(enum) == \A x, y \in DOMAIN enum : x /= y => enum[x] /= enum[y]

\* C7: the values of an enumeration have pairwise distinct tokens, and each
\* operation sends its template with the token substituted: 'OUTP {state}',
\* 'FUNC {shape}' first, 'MEAS:{quantity}:{currentType}?',
\* '{quantity}:STEP {step}', '*IDN?', '*RST', '*CLS', 'SYST:ERR?',
\* 'DISP:TEXT "{text}"'.
C7_TokensAndTemplates ==
    /\ Injective(OutputStates) /\ Injective(Waveshapes)
    /\ Injective(ValueToMeas) /\ Injective(CurrentType)
    /\ last.op = "setOutput" => Sent(<<"OUTP " \o OutputStates[last.args.state]>>)
    /\ last.op = "setWaveform" =>
            ThisCall /= <<>> /\ ThisCall[1].cmd = "FUNC " \o Waveshapes[last.args.form]
    /\ last.op = "getMeas" =>
            Sent(<<"MEAS:" \o ValueToMeas[last.args.mode] \o ":"
                   \o CurrentType[last.args.currType] \o "?">>)
    /\ last.op = "setStepSize" =>
            Sent(<<ValueToMeas[last.args.mode] \o ":STEP " \o Format(last.args.step)>>)
    /\ last.op = "getID" => Sent(<<"*IDN?">>) /\ ThisCall[1].kind = "query"
    /\ last.op = "reset" => Sent(<<"*RST">>) /\ ThisCall[1].kind = "write"
    /\ last.op = "clearStatus" => Sent(<<"*CLS">>) /\ ThisCall[1].kind = "write"
    /\ last.op = "getErrorQueue" => Sent(<<"SYST:ERR?">>) /\ ThisCall[1].kind = "query"
    /\ last.op = "writeText" => Sent(<<"DISP:TEXT \"" \o last.args.text \o "\"">>)

C7_Witness ==
    /\ last.op = "setStepSize"
    /\ ~last.raised
    /\ Cmds(ThisCall) = <<"CURR:STEP 0.2">>

\* C8: a getErrorQueue call sends exactly one 'SYST:ERR?' query; with
\* k >= 2 errors queued, k-1 are still queued after the call; the queue is
\* empty only after at least as many calls as errors were queued.
C8_OneQueryPerCall ==
    /\ [](/\ last.op = "getErrorQueue" =>
                /\ Len(ThisCall) = 1
                /\ ThisCall[1].kind = "query"
                /\ ThisCall[1].cmd = "SYST:ERR?"
          /\ \A d \in DOMAIN errq : errq[d] = 0 => errCalls[d] >= err0[d])
    /\ [][\A d \in DOMAIN errq :
            (errCalls'[d] = errCalls[d] + 1 /\ errq[d] >= 2 /\ ~last'.raised)
                => errq'[d] = errq[d] - 1]_vars

\* two errors were queued, two calls have emptied the queue
C8_Witness ==
    /\ last.op = "getErrorQueue"
    /\ ~last.raised
    /\ err0[last.dev] = 2
    /\ errCalls[last.dev] = 2
    /\ errq[last.dev] = 0

\* the transport calls of the last method call's body, in order
C9_Body == SelectSeq(MethodBody(instr[last.dev], last.op, last.args), IsCall)

\* C9: a transport call that fails is not sent again and no command of the
\* operation follows it (a failure of the k-th write leaves the first k-1
\* delivered); the failure reaches the caller; in the script it ends the
\* run, no later operation being executed.
C9_FailFast ==
    /\ \A k \in 1..Len(wire) : ~wire[k].ok => k = Len(wire)
    /\ last.op /= "" =>
        /\ IsPrefix(Cmds(ThisCall), [k \in 1..Len(C9_Body) |-> C9_Body[k].text])
        /\ last.raised <=> (ThisCall /= <<>> /\ ~ThisCall[Len(ThisCall)].ok)
        /\ ~last.raised => Len(ThisCall) = Len(C9_Body)
        /\ last.raised => last.ret = None
    /\ mode = "script" =>
        /\ last.raised <=> exc = "VisaIOError"
        /\ exc /= "none" => ~ENABLED Next

\* in the script, the third write of setWaveform failed
C9_Witness ==
    /\ mode = "script"
    /\ exc = "VisaIOError"
    /\ last.op = "setWaveform"
    /\ Len(ThisCall) = 3
    /\ ThisCall[1].ok /\ ThisCall[2].ok /\ ~ThisCall[3].ok
    /\ ~ENABLED Next

Delivered(d) == SelectSeq(wire, LAMBDA c : c.dev = d /\ c.ok)
Has(calls, cmd) == \E k \in 1..Len(calls) : calls[k].cmd = cmd
\* the run is over: an exception was raised or the last statement was run
Ended == exc /= "none" \/ pc = Len(Script) + 1

\* C10 as stated: in a run with no transport failure the generator is
\* reset, configured and switched on before the first reading; the loop
\* makes exactly N READ? queries and stores N rows of (time offset, text);
\* and the run ends with the generator switched off and 'JOB DONE' written
\* on both devices.
C10_RunReachesCleanup ==
    mode = "script" =>
        /\ \A k \in 1..Len(wire) :
            wire[k].cmd = "READ?" =>
                \E a, b, c \in 1..(k - 1) :
                    /\ a < b /\ b < c
                    /\ wire[a].dev = "frequGen" /\ wire[a].cmd = "*RST"
                    /\ wire[b].dev = "frequGen" /\ wire[b].cmd = "FUNC PULS"
                    /\ wire[c].dev = "frequGen" /\ wire[c].cmd = "OUTP on"
        /\ (exc = "none" /\ \E k \in 1..(pc - 1) : Script[k].kind = "loop") =>
            /\ Len(data) = N
            /\ Len(SelectSeq(wire, LAMBDA c : c.cmd = "READ?")) = N
        /\ (Ended /\ exc \notin {"VisaIOError", "ValueError"}) =>
            /\ Has(Delivered("frequGen"), "OUTP off")
            /\ Delivered("frequGen")[Len(Delivered("frequGen"))].cmd = "DISP:TEXT \"JOB DONE\""
            /\ Delivered("multimeter")[Len(Delivered("multimeter"))].cmd = "DISP:TEXT \"JOB DONE\""

====
